---- MODULE Spec2Model ----
(***************************************************************************)
(* nox-review (src/nox/review.py): which attributes of nixpkgs changed     *)
(* between two trees, and the build of those attributes.                   *)
(*                                                                         *)
(* Text is modelled as a sequence of one-character strings, so that the    *)
(* two conversions of the program, output.split('\n') and l.split()[0],    *)
(* are computed and not assumed.                                           *)
(*                                                                         *)
(* Three specifications:                                                   *)
(*   Spec       the three commands (revs, wip, pr) run one after another   *)
(*              against the persistent cache and the mirror repository;    *)
(*   DiffSpec   differences(old, new) on every pair of sets of lines;      *)
(*   ParseSpec  packages' parsing of every evaluator output.               *)
(***************************************************************************)
EXTENDS Integers, Sequences, FiniteSets, TLC

VARIABLES
    cache,      \* the persistent region: revision expression -> cached attribute set
    mirror,     \* nox's dedicated clone: [exists, head, remotes]
    tmpdirs,    \* the nox-review-* directories that exist
    refs,       \* what each branch name resolves to now
    worktree,   \* the tree in the current directory
    run,        \* the last command run: [cmd, args, log, exit]
    old,        \* DiffSpec: first argument of differences
    new,        \* DiffSpec: second argument of differences
    dres,       \* DiffSpec: what differences returned
    output,     \* ParseSpec: the evaluator's output
    pres        \* ParseSpec: what packages returned

vars == <<cache, mirror, tmpdirs, refs, worktree, run, old, new, dres, output, pres>>

---------------------------------------------------------------------------
(* Bounds *)

\* longest evaluator output ParseSpec enumerates
MaxOutLen == 4
\* derivation paths DiffSpec draws entries from
MaxPaths == 2
\* nox-review-* directory names mkdtemp can draw from
MaxDirs == 2

---------------------------------------------------------------------------
(* Text *)

NL == "\n"
SP == " "
Whitespace == {SP, NL, "\t"}

RECURSIVE SplitOn(_, _)
\* str.split(sep) for a one-character sep: the segments between the
\* separators; the empty text gives one empty segment.
SplitOn(s, sep) ==
    IF \A i \in 1..Len(s) : s[i] # sep
    THEN <<s>>
    ELSE LET i == CHOOSE j \in 1..Len(s) :
                      s[j] = sep /\ \A k \in 1..(j - 1) : s[k] # sep
         IN <<SubSeq(s, 1, i - 1)>> \o SplitOn(SubSeq(s, i + 1, Len(s)), sep)

RECURSIVE SplitWs(_)
\* str.split() without argument: the maximal runs of non-whitespace.
SplitWs(s) ==
    IF s = <<>> THEN <<>>
    ELSE IF s[1] \in Whitespace THEN SplitWs(Tail(s))
    ELSE LET ends == {j \in 1..Len(s) : s[j] \in Whitespace}
             e == IF ends = {} THEN Len(s) + 1
                  ELSE CHOOSE j \in ends : \A k \in ends : j <= k
         IN <<SubSeq(s, 1, e - 1)>> \o SplitWs(SubSeq(s, e, Len(s)))

Range(q) == {q[i] : i \in 1..Len(q)}

RECURSIVE JoinLines(_)
\* every line followed by a newline, as nix-env prints them
JoinLines(ls) ==
    IF ls = <<>> THEN <<>> ELSE Head(ls) \o <<NL>> \o JoinLines(Tail(ls))

\* an attribute entry as the evaluator prints it: "<name> <drv-path>"
Entry(n, p) == n \o <<SP>> \o p

---------------------------------------------------------------------------
(* differences *)

\* differences with old | new for old ^ new
differences_union(o, n) ==
    LET raw == o \cup n
    IN  IF \E l \in raw : SplitWs(l) = <<>>
        THEN [err |-> TRUE, names |-> {}]
        ELSE [err |-> FALSE, names |-> {SplitWs(l)[1] : l \in raw}]

\* differences with new - old for old ^ new
differences_added_only(o, n) ==
    LET raw == n \ o
    IN  IF \E l \in raw : SplitWs(l) = <<>>
        THEN [err |-> TRUE, names |-> {}]
        ELSE [err |-> FALSE, names |-> {SplitWs(l)[1] : l \in raw}]

\* differences(old, new): the first token of every line of old ^ new.
\* err: l.split()[0] raised IndexError on a line without a token.
differences(o, n) ==
    LET raw == (o \ n) \cup (n \ o)
    IN  IF \E l \in raw : SplitWs(l) = <<>>
        THEN [err |-> TRUE, names |-> {}]
        ELSE [err |-> FALSE, names |-> {SplitWs(l)[1] : l \in raw}]

---------------------------------------------------------------------------
(* packages' parsing *)

\* set(output.split('\n'))
parse(out) == Range(SplitOn(out, NL))

---------------------------------------------------------------------------
(* The repository the tool reviews *)

Shas == {"s1", "s2", "s3"}
Branches == {"master"}
RevExprs == Shas \cup Branches

F == <<"f">>
B == <<"b">>
P1 == <<"1">>
P2 == <<"2">>

\* The lines nix-env prints for a tree.  s2 changes f, s3 drops b,
\* "w" is a working tree with an uncommitted change of b.
TreeLines(t) ==
    CASE t = "s1" -> <<Entry(F, P1), Entry(B, P1)>>
      [] t = "s2" -> <<Entry(F, P2), Entry(B, P1)>>
      [] t = "s3" -> <<Entry(F, P1)>>
      [] t = "w"  -> <<Entry(F, P1), Entry(B, P2)>>
      [] OTHER    -> <<>>
WorkTrees == {"s1", "w"}

\* history: s1 is the parent of s2 and of s3
MergeBase(a, b) == IF a = b THEN a ELSE "s1"

\* what the GitHub API answers for a pull request number
PullRequests == {1, 2}
Payload(pr) ==
    IF pr = 1 THEN [head |-> "s3", base |-> "s2"]
              ELSE [head |-> "s2", base |-> "s1"]

\* git's resolution of a revision expression
Resolve(r, commit) == IF commit \in Shas THEN commit ELSE r[commit]

DirNames == 1..MaxDirs
AddOutcomes == {"fetched", "fetch_failed", "not_registered"}

---------------------------------------------------------------------------
(* The functions of review.py.  w is the world a call acts on:             *)
(* [cache, mirror, tmpdirs, log, ok]; ok = FALSE once an exception         *)
(* propagates.  e is what the run finds around it: [refs, worktree,        *)
(* inRepo, add, buildOk, dir].                                             *)

Log(w, ev) == [w EXCEPT !.log = Append(@, ev)]
Raise(w, what) == [Log(w, [op |-> "raise", what |-> what]) EXCEPT !.ok = FALSE]

to_sha(e, commit) == Resolve(e.refs, commit)

\* nix-env -f path -qaP --drv-path: the entries of the tree at path
nix_env(w, e, path) ==
    JoinLines(TreeLines(IF path = "." THEN e.worktree ELSE w.mirror.head))

packages(w, e, path) ==
    [w   |-> Log(w, [op |-> "nix_env", path |-> path]),
     ret |-> parse(nix_env(w, e, path))]

git_checkout(w, e, rev) ==
    [Log(w, [op |-> "checkout", rev |-> rev])
        EXCEPT !.mirror.head = Resolve(e.refs, rev)]

\* get_nixpkgs, lines 76-84: the temporary remote 'local'
local_remote(w, e) ==
    IF ~e.inRepo THEN w
    ELSE LET w1 == [Log(w, [op |-> "remote_add", outcome |-> e.add])
                      EXCEPT !.mirror.remotes =
                          IF e.add = "not_registered" THEN @ ELSE @ \cup {"local"}]
         IN  IF "local" \in w1.mirror.remotes
             THEN [Log(w1, [op |-> "remote_remove"])
                      EXCEPT !.mirror.remotes = @ \ {"local"}]
             ELSE Raise(w1, "remote_remove")

get_nixpkgs(w, e) ==
    LET w1 == IF w.mirror.exists THEN w
              ELSE [Log(w, [op |-> "init"]) EXCEPT
                       !.mirror = [exists |-> TRUE, head |-> "none",
                                   remotes |-> {"origin"}]]
        w2 == local_remote(w1, e)
    IN  IF ~w2.ok THEN w2
        ELSE Log(Log(w2, [op |-> "fetch", what |-> "master"]),
                 [op |-> "fetch", what |-> "pulls"])

\* the region of .cache: a value stored under a key stays there
cache_has(c, key) == key \in DOMAIN c
cache_get(c, key) == c[key]
cache_set(c, key, val) ==
    [k \in DOMAIN c \cup {key} |-> IF k = key THEN val ELSE c[k]]

\* packages_for_sha as it would be without its decorator
packages_for_sha_no_cache(w, e, sha) ==
    LET w0 == Log(w, [op |-> "lookup", key |-> sha])
        w1 == get_nixpkgs(w0, e)
        r  == packages(git_checkout(w1, e, sha), e, "nixpkgs")
    IN  IF ~w1.ok THEN [w |-> w1, ret |-> {}]
        ELSE [w   |-> Log(r.w, [op |-> "return", key |-> sha, ret |-> r.ret]),
              ret |-> r.ret]

\* packages_for_sha with its decorator, region.cache_on_arguments(): the
\* body runs only when the region holds nothing under the argument, and
\* what it returns is stored there
packages_for_sha(w, e, sha) ==
    LET w0 == Log(w, [op |-> "lookup", key |-> sha])
        w1 == get_nixpkgs(w0, e)
        r  == packages(git_checkout(w1, e, sha), e, "nixpkgs")
    IN  IF cache_has(w.cache, sha)
        THEN [w   |-> Log(w0, [op |-> "return", key |-> sha,
                               ret |-> cache_get(w.cache, sha)]),
              ret |-> cache_get(w.cache, sha)]
        ELSE IF ~w1.ok THEN [w |-> w1, ret |-> {}]
        ELSE [w   |-> Log([r.w EXCEPT !.cache = cache_set(@, sha, r.ret)],
                          [op |-> "return", key |-> sha, ret |-> r.ret]),
              ret |-> r.ret]

RECURSIVE SetToSeq(_)
\* for a in attrs: some order of the set
SetToSeq(S) ==
    IF S = {} THEN <<>>
    ELSE LET x == CHOOSE y \in S : TRUE IN <<x>> \o SetToSeq(S \ {x})

\* a directory name that does not depend on what exists
mkdtemp_fixed(w, e) == CHOOSE d \in DirNames : TRUE

\* tempfile.mkdtemp: a name no existing directory has
mkdtemp(w, e) == e.dir

build_in_path(w, e, attrs, path) ==
    LET w0 == Log(w, [op |-> "build_in_path", attrs |-> attrs, path |-> path])
    IN
    IF attrs = {}
    THEN Log(w0, [op |-> "echo", msg |-> "Nothing changed"])
    ELSE LET dir == mkdtemp(w, e)
             w1  == [Log(w0, [op |-> "mkdtemp", dir |-> dir])
                        EXCEPT !.tmpdirs = @ \cup {dir}]
             w2  == Log(w1, [op   |-> "nix_build",
                             A    |-> SetToSeq(attrs),
                             path |-> path,
                             cwd  |-> dir,
                             tree |-> IF path = "." THEN e.worktree
                                                    ELSE w.mirror.head,
                             rc   |-> IF e.buildOk THEN 0 ELSE 1])
             w3  == IF e.buildOk THEN w2
                    ELSE Log(w2, [op |-> "echo", msg |-> "invocation failed"])
         IN  Log(w3, [op |-> "ls", dir |-> dir])

build_sha(w, e, attrs, sha) ==
    LET w1 == get_nixpkgs(w, e)
    IN  IF ~w1.ok THEN w1
        ELSE build_in_path(git_checkout(w1, e, sha), e, attrs, "nixpkgs")

\* attrs = differences(a, b) inside a command, then the build
diff_then(w, a, b) ==
    LET d == differences(a, b)
        w1 == Log(w, [op |-> "differences", old |-> a, new |-> b])
    IN  [w |-> IF d.err THEN Raise(w1, "IndexError") ELSE w1, attrs |-> d.names]

revs(w, e, current_rev, reference_rev) ==
    LET r1 == packages_for_sha(w, e, reference_rev)
        r2 == packages_for_sha(r1.w, e, current_rev)
        d  == diff_then(r2.w, r1.ret, r2.ret)
    IN  IF ~r1.w.ok THEN r1.w
        ELSE IF ~r2.w.ok THEN r2.w
        ELSE IF ~d.w.ok THEN d.w
        ELSE build_sha(d.w, e, d.attrs, current_rev)

wip(w, e, against) ==
    LET r1 == packages(w, e, ".")
        r2 == packages_for_sha(r1.w, e, to_sha(e, against))
        d  == diff_then(r2.w, r1.ret, r2.ret)
    IN  IF ~r2.w.ok THEN r2.w
        ELSE IF ~d.w.ok THEN d.w
        ELSE build_in_path(d.w, e, d.attrs, ".")

\* review_pr diffing against the PR base instead of the merge base
review_pr_base(w, e, pr) ==
    LET head == Payload(pr).head
        base == Payload(pr).base
        w1 == get_nixpkgs(w, e)
        r1 == packages_for_sha(w1, e, head)
        r2 == packages_for_sha(r1.w, e, base)
        d  == diff_then(r2.w, r1.ret, r2.ret)
    IN  IF ~w1.ok THEN w1
        ELSE IF ~r1.w.ok THEN r1.w
        ELSE IF ~r2.w.ok THEN r2.w
        ELSE IF ~d.w.ok THEN d.w
        ELSE build_sha(d.w, e, d.attrs, head)

review_pr(w, e, pr) ==
    LET head == Payload(pr).head
        base == Payload(pr).base
        w1 == get_nixpkgs(w, e)
        root == MergeBase(head, base)
        r1 == packages_for_sha(w1, e, head)
        r2 == packages_for_sha(r1.w, e, root)
        d  == diff_then(r2.w, r1.ret, r2.ret)
    IN  IF ~w1.ok THEN w1
        ELSE IF ~r1.w.ok THEN r1.w
        ELSE IF ~r2.w.ok THEN r2.w
        ELSE IF ~d.w.ok THEN d.w
        ELSE build_sha(d.w, e, d.attrs, head)

---------------------------------------------------------------------------
(* Spec: the commands, run one after another *)

NoRun == [cmd |-> "none", a1 |-> "", a2 |-> "", pr |-> 0, log |-> <<>>, exit |-> 0]

Init ==
    /\ cache = [k \in {} |-> {}]
    /\ mirror = [exists |-> FALSE, head |-> "none", remotes |-> {}]
    /\ tmpdirs = {}
    /\ refs = [b \in Branches |-> "s1"]
    /\ worktree = "s1"
    /\ run = NoRun
    /\ old = {}
    /\ new = {}
    /\ dres = [done |-> FALSE, err |-> FALSE, names |-> {}]
    /\ output = <<>>
    /\ pres = [done |-> FALSE, set |-> {}]

World == [cache |-> cache, mirror |-> mirror, tmpdirs |-> tmpdirs,
          log |-> <<>>, ok |-> TRUE]

\* what one run finds around it; local: the current directory is no
\* repository, or what `git remote add local -f` did
Envs == {[refs |-> refs, worktree |-> worktree, inRepo |-> l # "no_repo",
          add |-> l, buildOk |-> b, dir |-> d] :
            l \in {"no_repo"} \cup AddOutcomes, b \in BOOLEAN,
            d \in DirNames \ tmpdirs}

\* the process ends: exit status 0 unless an exception propagated
Finish(w, r) ==
    /\ cache' = w.cache
    /\ mirror' = w.mirror
    /\ tmpdirs' = w.tmpdirs
    /\ run' = [r EXCEPT !.log = w.log, !.exit = IF w.ok THEN 0 ELSE 1]
    /\ UNCHANGED <<refs, worktree, old, new, dres, output, pres>>

Revs ==
    /\ run.cmd = "none"
    /\ \E e \in Envs, cur \in RevExprs, ref \in RevExprs :
           Finish(revs(World, e, cur, ref),
                  [NoRun EXCEPT !.cmd = "revs", !.a1 = cur, !.a2 = ref])

Wip ==
    /\ run.cmd = "none"
    /\ \E e \in Envs, against \in RevExprs :
           Finish(wip(World, e, against),
                  [NoRun EXCEPT !.cmd = "wip", !.a1 = against])

ReviewPr ==
    /\ run.cmd = "none"
    /\ \E e \in Envs, pr \in PullRequests :
           Finish(review_pr(World, e, pr), [NoRun EXCEPT !.cmd = "pr", !.pr = pr])

\* back at the prompt: the next command can be given
Prompt ==
    /\ run.cmd # "none"
    /\ run' = NoRun
    /\ UNCHANGED <<cache, mirror, tmpdirs, refs, worktree, old, new, dres, output, pres>>

\* the user's branch moves to another commit
MoveBranch ==
    /\ run.cmd = "none"
    /\ \E b \in Branches, s \in Shas :
           /\ refs[b] # s
           /\ refs' = [refs EXCEPT ![b] = s]
    /\ UNCHANGED <<cache, mirror, tmpdirs, worktree, run, old, new, dres, output, pres>>

\* the user edits the working tree
EditWorktree ==
    /\ run.cmd = "none"
    /\ \E t \in WorkTrees \ {worktree} : worktree' = t
    /\ UNCHANGED <<cache, mirror, tmpdirs, refs, run, old, new, dres, output, pres>>

Next == Revs \/ Wip \/ ReviewPr \/ Prompt \/ MoveBranch \/ EditWorktree

Spec == Init /\ [][Next]_vars

---------------------------------------------------------------------------
(* DiffSpec: differences on every pair of sets of lines *)

PathPool == <<"1", "2", "3", "4">>
Paths == {<<PathPool[i]>> : i \in 1..MaxPaths}
Names == {F, B}
\* the entries, and the empty line a trailing newline leaves in a set
LinePool == {Entry(n, p) : n \in Names, p \in Paths} \cup {<<>>}

\* the scenario of the specification's section 8
Foo == <<"f", "o", "o">>
Bar == <<"b", "a", "r">>
Baz == <<"b", "a", "z">>
Nix(c) == <<"/", "n", "i", "x", "/", c>>
ScenarioA == {Entry(Foo, Nix("a")), Entry(Bar, Nix("b"))}
ScenarioB == {Entry(Foo, Nix("a")), Entry(Bar, Nix("c")), Entry(Baz, Nix("d"))}

DiffInit ==
    /\ \E pair \in ((SUBSET LinePool) \X (SUBSET LinePool))
                          \cup {<<ScenarioA, ScenarioB>>} :
           old = pair[1] /\ new = pair[2]
    /\ dres = [done |-> FALSE, err |-> FALSE, names |-> {}]
    /\ cache = [k \in {} |-> {}]
    /\ mirror = [exists |-> FALSE, head |-> "none", remotes |-> {}]
    /\ tmpdirs = {}
    /\ refs = [b \in Branches |-> "s1"]
    /\ worktree = "s1"
    /\ run = NoRun
    /\ output = <<>>
    /\ pres = [done |-> FALSE, set |-> {}]

Differences ==
    /\ ~dres.done
    /\ dres' = [done |-> TRUE, err |-> differences(old, new).err,
                names |-> differences(old, new).names]
    /\ UNCHANGED <<old, new, output, pres, cache, mirror, tmpdirs, refs, worktree, run>>

DiffNext == Differences

DiffSpec == DiffInit /\ [][DiffNext]_vars

---------------------------------------------------------------------------
(* ParseSpec: packages' parsing of every evaluator output *)

Alphabet == {"a", "b", NL}

RECURSIVE TextsOfLen(_)
TextsOfLen(n) ==
    IF n = 0 THEN {<<>>}
    ELSE {Append(t, c) : t \in TextsOfLen(n - 1), c \in Alphabet}

Texts == UNION {TextsOfLen(n) : n \in 0..MaxOutLen}

ParseInit ==
    /\ output \in Texts
    /\ pres = [done |-> FALSE, set |-> {}]
    /\ old = {}
    /\ new = {}
    /\ dres = [done |-> FALSE, err |-> FALSE, names |-> {}]
    /\ cache = [k \in {} |-> {}]
    /\ mirror = [exists |-> FALSE, head |-> "none", remotes |-> {}]
    /\ tmpdirs = {}
    /\ refs = [b \in Branches |-> "s1"]
    /\ worktree = "s1"
    /\ run = NoRun

Packages ==
    /\ ~pres.done
    /\ pres' = [done |-> TRUE, set |-> parse(output)]
    /\ UNCHANGED <<output, old, new, dres, cache, mirror, tmpdirs, refs, worktree, run>>

ParseNext == Packages

ParseSpec == ParseInit /\ [][ParseNext]_vars

---------------------------------------------------------------------------
(* Properties of differences (DiffSpec) *)

HasToken(l) == SplitWs(l) # <<>>
NameOf(l) == SplitWs(l)[1]
PathOf(l) == SplitWs(l)[2]
\* a set of "name path" lines
IsAttrSet(S) == \A l \in S : Len(SplitWs(l)) = 2
\* the lines of S that carry the name n
EntriesOf(S, n) == {l \in S : NameOf(l) = n}
SymDiff(S, T) == {l \in S \cup T : (l \in S) # (l \in T)}

\* C1 as stated: for every pair of sets, also with a name in several
\* entries of a set, a name with path p1 in old and p2 in new is in
\* differences(old, new) if p1 # p2 and is not in it if p1 = p2.
C1_AsClaimed ==
    (dres.done /\ IsAttrSet(old) /\ IsAttrSet(new)) =>
        \A la \in old, lb \in new :
            NameOf(la) = NameOf(lb) =>
                ((PathOf(la) # PathOf(lb)) <=> (NameOf(la) \in dres.names))

\* C1 amended: for a name that occurs in exactly one entry of old and in
\* exactly one entry of new, the name is in differences(old, new) exactly
\* when the two derivation paths differ.
C1_UniqueNameChangedIffPathDiffers ==
    (dres.done /\ IsAttrSet(old) /\ IsAttrSet(new)) =>
        /\ ~dres.err
        /\ \A la \in old, lb \in new :
               (/\ NameOf(la) = NameOf(lb)
                /\ Cardinality(EntriesOf(old, NameOf(la))) = 1
                /\ Cardinality(EntriesOf(new, NameOf(la))) = 1)
               => ((PathOf(la) # PathOf(lb)) <=> (NameOf(la) \in dres.names))

\* one name whose path changed and one whose path did not, each in one
\* entry of each set
C1_Witness ==
    /\ dres.done
    /\ old = {Entry(F, P1), Entry(B, P1)}
    /\ new = {Entry(F, P2), Entry(B, P1)}
    /\ dres.names = {F}

\* C2: differences(old, new) is exactly the set of the first tokens of the
\* lines present in exactly one of old and new (whenever each of these has
\* a first token); for the scenario sets the result is {bar, baz}.
C2_ResultIsProjectionOfSymmetricDifference ==
    (dres.done /\ \A l \in SymDiff(old, new) : HasToken(l)) =>
        /\ ~dres.err
        /\ dres.names = {NameOf(l) : l \in SymDiff(old, new)}
        /\ (old = ScenarioA /\ new = ScenarioB) => dres.names = {Bar, Baz}

C2_Witness ==
    /\ dres.done
    /\ old = ScenarioA
    /\ new = ScenarioB
    /\ dres.names = {Bar, Baz}

---------------------------------------------------------------------------
(* Properties of packages' parsing (ParseSpec) *)

\* C8 as stated: the set packages returns holds exactly the non-empty
\* lines of the output, and never the empty string.
C8_AsClaimed ==
    pres.done =>
        /\ <<>> \notin pres.set
        /\ pres.set = {l \in Range(SplitOn(output, NL)) : l # <<>>}

---------------------------------------------------------------------------
(* Properties of the commands (Spec) *)

\* the attribute set packages returns for the tree of a commit
AttrsOf(t) == parse(JoinLines(TreeLines(t)))
\* the attribute names of a tree
NamesIn(t) == {NameOf(l) : l \in {x \in AttrsOf(t) : HasToken(x)}}

Ops(log, op) == {i \in 1..Len(log) : log[i].op = op}
\* a lookup answered from the cache: nothing between the call and its return
IsHit(log, i) == log[i].op = "lookup" /\ i < Len(log) /\ log[i + 1].op = "return"

\* C3: in the pr command, differences gets the attribute sets of the PR
\* head and of the merge base (and the base is never looked up when it is
\* neither), and every build runs with the mirror checked out at the head,
\* the last checkout before the build being the one of the head.
C3_PrDiffsRootAgainstHeadAndBuildsAtHead ==
    run.cmd = "pr" =>
        LET H == Payload(run.pr).head
            Bs == Payload(run.pr).base
            M == MergeBase(H, Bs)
            L == run.log
        IN  /\ \A i \in Ops(L, "differences") :
                   {L[i].old, L[i].new} = {AttrsOf(M), AttrsOf(H)}
            /\ Bs \notin {M, H} => \A i \in Ops(L, "lookup") : L[i].key # Bs
            /\ \A i \in Ops(L, "nix_build") :
                   /\ L[i].tree = H
                   /\ \E j \in 1..(i - 1) :
                          /\ L[j].op = "checkout"
                          /\ L[j].rev = H
                          /\ \A k \in (j + 1)..(i - 1) : L[k].op # "checkout"

\* PR 1 (base is not the merge base), built, with the head's lookup
\* answered from the cache and the root's not
C3_Witness ==
    /\ run.cmd = "pr"
    /\ run.pr = 1
    /\ Ops(run.log, "nix_build") # {}
    /\ \E i \in Ops(run.log, "lookup") : IsHit(run.log, i)
    /\ \E i \in Ops(run.log, "lookup") : ~IsHit(run.log, i)

\* C4: a lookup of a key that was looked up successfully before (in an
\* earlier run: the key is in the cache; in this run: an earlier return)
\* returns the same set at once, with no setup, fetch, checkout or
\* evaluation, and no run changes what the cache holds for a key.
C4_CachedLookupReturnsSameSetWithoutWork ==
    [][LET L == run'.log
       IN  /\ \A k \in DOMAIN cache : k \in DOMAIN cache' /\ cache'[k] = cache[k]
           /\ \A i \in Ops(L, "lookup") :
                  LET before == {j \in 1..(i - 1) :
                                    L[j].op = "return" /\ L[j].key = L[i].key}
                  IN  (L[i].key \in DOMAIN cache \/ before # {}) =>
                          /\ IsHit(L, i)
                          /\ L[i + 1].ret =
                                 IF L[i].key \in DOMAIN cache THEN cache[L[i].key]
                                 ELSE L[CHOOSE j \in before :
                                            \A m \in before : j <= m].ret
      ]_vars

\* both lookups of a revs run are answered from the cache, which earlier
\* runs filled: the run does no setup, fetch, checkout or evaluation
\* before differences
C4_Witness ==
    /\ run.cmd = "revs"
    /\ run.a1 # run.a2
    /\ Cardinality(Ops(run.log, "lookup")) = 2
    /\ \A i \in Ops(run.log, "lookup") : IsHit(run.log, i)
    /\ \A i \in 1..Len(run.log) :
           run.log[i].op \in {"checkout", "nix_env", "fetch"} =>
               \E j \in Ops(run.log, "differences") : j < i

\* C5 as stated: every key the cached lookup reads or stores under is a
\* canonical revision identifier.
C5_AsClaimed ==
    /\ \A k \in DOMAIN cache : k \in Shas
    /\ \A i \in Ops(run.log, "lookup") : run.log[i].key \in Shas

\* C6 as stated: after a failed build the run goes on to list the output
\* directory and ends with a status other than that of a successful run (0).
C6_AsClaimed ==
    \A i \in Ops(run.log, "nix_build") :
        run.log[i].rc # 0 =>
            /\ \E j \in (i + 1)..Len(run.log) : run.log[j].op = "ls"
            /\ run.exit # 0

\* C7: build_in_path with no attribute only says "Nothing changed" and
\* creates no directory; with attributes it invokes the build once, with
\* one -A per name, in a directory it created that no earlier call used.
C7_BuildOnceInFreshDirectory ==
    [][LET L == run'.log
       IN  \A i \in Ops(L, "build_in_path") :
               IF L[i].attrs = {}
               THEN /\ Len(L) = i + 1
                    /\ L[i + 1] = [op |-> "echo", msg |-> "Nothing changed"]
                    /\ tmpdirs' = tmpdirs
               ELSE LET builds == {j \in Ops(L, "nix_build") : j > i}
                    IN  /\ Cardinality(builds) = 1
                        /\ \A j \in builds :
                               /\ Range(L[j].A) = L[i].attrs
                               /\ Len(L[j].A) = Cardinality(L[i].attrs)
                               /\ L[j].path = L[i].path
                               /\ L[j].cwd \notin tmpdirs
                               /\ L[j].cwd \in tmpdirs'
                               /\ \E m \in (i + 1)..(j - 1) :
                                      L[m] = [op |-> "mkdtemp", dir |-> L[j].cwd]
                        /\ tmpdirs \subseteq tmpdirs'
      ]_vars

\* a build of two attributes, in the second directory the tool created
C7_Witness ==
    /\ Cardinality(tmpdirs) = 2
    /\ \E i \in Ops(run.log, "nix_build") :
           /\ Len(run.log[i].A) = 2
           /\ run.log[i].cwd \in tmpdirs

\* C9 as stated: whatever adding the remote 'local' did, get_nixpkgs does
\* not abort on that step, 'local' is not registered afterwards and the
\* upstream fetches follow.
C9_AsClaimed ==
    \A i \in Ops(run.log, "remote_add") :
        /\ "local" \notin mirror.remotes
        /\ \A j \in (i + 1)..Len(run.log) :
               ~(run.log[j].op = "raise" /\ run.log[j].what = "remote_remove")
        /\ \E j \in (i + 1)..Len(run.log) : run.log[j].op = "fetch"

\* C10 as stated: every attribute name given to the build is the name of an
\* entry of the tree that is built.
C10_AsClaimed ==
    \A i \in Ops(run.log, "nix_build") :
        Range(run.log[i].A) \subseteq NamesIn(run.log[i].tree)

====
